---- MODULE Spec2Model ----
(***************************************************************************)
(* Model of the tank utilisation solvers of orlab (exercise6.py,           *)
(* exercise6c.py, exercise6d.py): the lexicographic weight generator       *)
(* _lexicographic_weights; the calls tank_solve_d / tank_solve_c /         *)
(* tank_solve, which build a mixed-integer model, hand it to the external  *)
(* solver and decode the answer into a placement table; the runner         *)
(* run_iterative_scenarios; and two tank_solve_d calls side by side.       *)
(*                                                                         *)
(* Numbers.  Levels, volumes and spare capacities are integers.  A float   *)
(* weight is kept by the quantities the code computes it from: its         *)
(* natural logarithm in fixed point (LogScale units per nat), the base,    *)
(* the exponent and the offset; sys.float_info.max and sys.float_info.min  *)
(* enter by their logarithms.  The external solver is modelled as exact:   *)
(* Solve answers OPTIMAL with any minimiser of the objective over the      *)
(* feasible set, INFEASIBLE when that set is empty.                        *)
(***************************************************************************)
EXTENDS Integers, Sequences, FiniteSets, Bags, TLC

VARIABLES
    \* ---- one call of tank_solve_d / tank_solve_c ----
    pc,                  \* position of the call
    variant,             \* "d" = tank_solve_d, "c" = tank_solve_c, "6" = tank_solve
    tanks_df,            \* the caller's table: sequence of rows
    demands,             \* the caller's demand list
    tank_usage_penalty,  \* keyword argument
    solver,              \* the solver instance owned by the call
    ret,                 \* what the call returned or raised
    \* ---- one application of _lexicographic_weights ----
    wpc,                 \* "ready" | "returned" | "raised"
    spare_series,        \* the Series passed in (index = position)
    weights_out,         \* the dict returned
    \* ---- one call of run_iterative_scenarios ----
    run,                 \* the runner's locals and what it returned or raised
    \* ---- tank_solve_d calls running side by side ----
    calls,               \* the locals of each call
    solvers              \* the solver instances created so far

vars == <<pc, variant, tanks_df, demands, tank_usage_penalty, solver, ret,
          wpc, spare_series, weights_out, run, calls, solvers>>

callVars == <<pc, variant, tanks_df, demands, tank_usage_penalty, solver, ret>>
weightVars == <<wpc, spare_series, weights_out>>
runVars == <<run>>
sideVars == <<calls, solvers>>

(***************************************************************************)
(* Bounds of the model.                                                    *)
(***************************************************************************)
MaxTanks == 2        \* rows of a small table
MaxDemands == 2      \* length of a small demand list
MaxLevel == 2        \* max_level of a small table; current_level is 0..MaxLevel+1
MaxVol == 1          \* largest small demand volume (the smallest is -1)
MaxPenalty == 1      \* tank_usage_penalty is 0 (no usage term) or MaxPenalty
MaxSeries == 3       \* length of a small spare-capacity Series
MaxSpare == 3        \* largest entry of a small Series (the smallest is -1)
MaxCount == 98       \* length of a long Series (the test's generator)
PatLen == 2          \* period of the pattern added to base_spare in a long Series
MaxScenarios == 2    \* length of the scenario sequence given to the runner

(***************************************************************************)
(* Arithmetic helpers.                                                     *)
(***************************************************************************)
Max(a, b) == IF a >= b THEN a ELSE b

RECURSIVE SumSeq(_)
SumSeq(s) == IF s = <<>> THEN 0 ELSE Head(s) + SumSeq(Tail(s))

RECURSIVE SumFun(_, _)
\* sum of f[x] over the finite set S
SumFun(f, S) ==
    IF S = {} THEN 0
    ELSE LET x == CHOOSE y \in S : TRUE IN f[x] + SumFun(f, S \ {x})

RECURSIVE Pow(_, _)
Pow(b, e) == IF e = 0 THEN 1 ELSE b * Pow(b, e - 1)

(***************************************************************************)
(* Floating point, in the log domain.  LogScale fixed-point units make one *)
(* nat.  Ln(x) is math.log(x) for an integer x >= 1: x = m * 2^k with m in *)
(* [1, 2), ln x = k ln 2 + 2 atanh((m - 1)/(m + 1)), the series cut after  *)
(* the y^7 term, m kept to 16 bits.                                        *)
(***************************************************************************)
LogScale == 10000
LogMaxFinite == 7097827     \* math.log(sys.float_info.max) = 709.7827...
LogMin == -7083964          \* math.log(sys.float_info.min) = -708.3964...
margin == 1 * LogScale      \* margin = 1.0

RECURSIVE Log2Floor(_)
Log2Floor(x) == IF x < 2 THEN 0 ELSE 1 + Log2Floor(x \div 2)

Ln(x) ==
    LET k == Log2Floor(x)
        one == Pow(2, 15)
        m == IF k >= 15 THEN x \div Pow(2, k - 15) ELSE x * Pow(2, 15 - k)
        y == ((m - one) * LogScale) \div (m + one)
        y2 == (y * y) \div LogScale
        y3 == (y2 * y) \div LogScale
        y5 == (y3 * y2) \div LogScale
        y7 == (y5 * y2) \div LogScale
    IN (k * 693147) \div 100 + 2 * (y + y3 \div 3 + y5 \div 5 + y7 \div 7)

(***************************************************************************)
(* A float weight.  math.exp(log_weight) is the float whose logarithm is   *)
(* log_weight; sys.float_info.min is the float whose logarithm is LogMin.  *)
(* exponent, base and offset are what log_weight was computed from, so     *)
(* that the value is base^exponent * e^(-offset) when not clamped.         *)
(***************************************************************************)
FloatExp(log_weight, base, exponent, offset) ==
    [ln |-> log_weight, clamped |-> FALSE,
     base |-> base, exponent |-> exponent, offset |-> offset]

FloatMin(base, exponent, offset) ==
    [ln |-> LogMin, clamped |-> TRUE,
     base |-> base, exponent |-> exponent, offset |-> offset]

\* a float is finite when its logarithm is at most that of the largest float
IsFinite(w) == w.ln <= LogMaxFinite

\* order of two floats
FloatLess(a, b) == a.ln < b.ln

(***************************************************************************)
(* Series.sort_values(kind="mergesort").index: the positions of the Series *)
(* in ascending order of value, equal values in their input order.         *)
(***************************************************************************)
\* merge two sorted index lists; on a tie the left element goes first.  An
\* element lands after the elements of its own list before it and the
\* elements of the other list that go before it.
Merge(series, left, right) ==
    LET nl == Len(left)
        nr == Len(right)
        posLeft == SubSeq([i \in 1..nl |->
                      i + Cardinality({j \in 1..nr :
                                          series[right[j]] < series[left[i]]})],
                          1, nl)
        posRight == SubSeq([j \in 1..nr |->
                       j + Cardinality({i \in 1..nl :
                                           series[left[i]] <= series[right[j]]})],
                           1, nr)
    IN SubSeq([p \in 1..(nl + nr) |->
                 IF \E i \in 1..nl : posLeft[i] = p
                 THEN left[CHOOSE i \in 1..nl : posLeft[i] = p]
                 ELSE right[CHOOSE j \in 1..nr : posRight[j] = p]],
              1, nl + nr)

RECURSIVE MergeSort(_, _)
MergeSort(series, idx) ==
    IF Len(idx) <= 1 THEN idx
    ELSE LET half == Len(idx) \div 2
         IN Merge(series,
                  MergeSort(series, SubSeq(idx, 1, half)),
                  MergeSort(series, SubSeq(idx, half + 1, Len(idx))))

\* sort_values_index in descending order (ascending=False)
sort_values_index_descending(series) ==
    LET up == MergeSort(series, [i \in 1..Len(series) |-> i])
    IN SubSeq([i \in 1..Len(series) |-> up[Len(series) + 1 - i]],
              1, Len(series))

sort_values_index(series) == MergeSort(series, [i \in 1..Len(series) |-> i])

(***************************************************************************)
(* _lexicographic_weights(spare_capacity): returns the dict tank ->        *)
(* weight, or raises ValueError when the base is not positive.             *)
(***************************************************************************)
Raise(error) == [raised |-> error, value |-> <<>>]
Return(value) == [raised |-> "none", value |-> value]

\* lex_offset without the rescaling: the weights are base^exponent as in
\* tank_solve_c
lex_offset_absent(max_exponent, log_base) == 0

\* lex_offset without the safety margin
lex_offset_no_margin(max_exponent, log_base) ==
    Max(0, max_exponent * log_base - LogMaxFinite)

\* offset = max(0.0, max_exponent * log_base - math.log(sys.float_info.max) + margin)
lex_offset(max_exponent, log_base) ==
    Max(0, max_exponent * log_base - LogMaxFinite + margin)

\* the weight of one rank: sys.float_info.min if log_weight <= log_min,
\* math.exp(log_weight) otherwise
lex_weight(log_weight, base, exponent, offset) ==
    LET log_min == LogMin
    IN IF log_weight <= log_min
       THEN FloatMin(base, exponent, offset)
       ELSE FloatExp(log_weight, base, exponent, offset)

\* RankOf counted from the other end: the roomiest tank ranks first
RankOf_reversed(priority_order, tank) ==
    Len(priority_order)
        - (CHOOSE r \in 1..Len(priority_order) : priority_order[r] = tank)

\* position of a tank in the priority order, counted from 0 as enumerate does
RankOf(priority_order, tank) ==
    (CHOOSE r \in 1..Len(priority_order) : priority_order[r] = tank) - 1

\* base_invalid with < in place of <=
base_invalid_strict(base) == base < 0

\* base_invalid that rejects a base of 1 as well
base_invalid_at_most_one(base) == base <= 1

\* if base <= 0.0: raise ValueError
base_invalid(base) == base <= 0

_lexicographic_weights(spare_capacity) ==
    LET priority_order == sort_values_index(spare_capacity)
        base == SumSeq(spare_capacity) + 1
    IN IF base_invalid(base) THEN Raise("ValueError")
       ELSE
         LET log_base == Ln(base)
             n == Len(priority_order)
             max_exponent == n - 1
             offset == lex_offset(max_exponent, log_base)
             byRank == [rank \in 0..(n - 1) |->
                          LET exponent == n - 1 - rank
                              log_weight == exponent * log_base - offset
                          IN lex_weight(log_weight, base, exponent, offset)]
         IN Return([tank \in 1..n |-> byRank[RankOf(priority_order, tank)]])

(***************************************************************************)
(* Inputs of the weight generator: every short Series, and the long ones   *)
(* of the repository's test: base_spare plus a periodic pattern.           *)
(***************************************************************************)
base_spare == 28000

SmallSeries ==
    UNION {[1..n -> (-1)..MaxSpare] : n \in 1..MaxSeries}

LongSeries ==
    {[i \in 1..n |-> base_spare + pat[((i - 1) % PatLen) + 1]] :
        n \in (MaxSeries + 1)..MaxCount, pat \in [1..PatLen -> 0..1]}

SeriesInputs == SmallSeries \cup LongSeries

NoWeights == <<>>

InitWeights ==
    /\ wpc = "ready"
    /\ spare_series \in SeriesInputs
    /\ weights_out = NoWeights

\* the call returns the dict
WeightsReturn ==
    /\ wpc = "ready"
    /\ _lexicographic_weights(spare_series).raised = "none"
    /\ weights_out' = _lexicographic_weights(spare_series).value
    /\ wpc' = "returned"
    /\ UNCHANGED spare_series

\* the call raises ValueError (exercise6d.py, lines 41-42)
WeightsRaise ==
    /\ wpc = "ready"
    /\ _lexicographic_weights(spare_series).raised = "ValueError"
    /\ weights_out' = NoWeights
    /\ wpc' = "raised"
    /\ UNCHANGED spare_series

(***************************************************************************)
(* The tables and demand lists a call is given: every small table and      *)
(* list, and the scenarios of the module's __main__ block.                 *)
(***************************************************************************)
TankRows == [max_level : {MaxLevel}, current_level : 0..(MaxLevel + 1)]

SmallTables == UNION {[1..n -> TankRows] : n \in 1..MaxTanks}

SmallDemands == UNION {[1..m -> (-1)..MaxVol] : m \in 0..MaxDemands}

base_case ==
    << [max_level |-> 95, current_level |-> 20],
       [max_level |-> 95, current_level |-> 0],
       [max_level |-> 95, current_level |-> 80],
       [max_level |-> 95, current_level |-> 0] >>

ScenarioDemands == { <<56, 2, 18, 40>>, <<56, 18, 2, 40>> }

\* a list that fits the base case by total volume (270 of 280) but not tank
\* by tank: only two tanks have room for a demand of 90
TightDemands == { <<90, 90, 90>> }

CallInputs ==
    (SmallTables \X SmallDemands)
        \cup ({base_case} \X (ScenarioDemands \cup TightDemands))

\* tanks_df["max_level"].astype(float) - tanks_df["current_level"].astype(float)
SpareCapacity(table) ==
    [t \in 1..Len(table) |-> table[t].max_level - table[t].current_level]

(***************************************************************************)
(* The weights of tank_solve_c (exercise6c.py, lines 98-106):              *)
(* base**exponent, with no offset and no clamp.                            *)
(***************************************************************************)
PowerWeights(spare_capacity) ==
    LET priority_order == sort_values_index(spare_capacity)
        base == SumSeq(spare_capacity) + 1
        n == Len(priority_order)
        byRank == [rank \in 0..(n - 1) |->
                     LET exponent == n - 1 - rank
                     IN FloatExp(exponent * Ln(base), base, exponent, 0)]
    IN [tank \in 1..n |-> byRank[RankOf(priority_order, tank)]]

\* the number a weight stands for when it is neither rescaled nor clamped
WeightValue(w) == Pow(w.base, w.exponent)

(***************************************************************************)
(* The mixed-integer model a call builds.  A solution gives assign[d][t]   *)
(* and use_tank[t] in {0, 1} (BoolVar) and stranded[t] in 0..spare[t]      *)
(* (NumVar(0, spare)); the constraints are those the code adds.            *)
(***************************************************************************)
NoModel == [built |-> FALSE]
NoSolution == <<>>

Tanks(m) == 1..Len(m.spare)
DemandIx(m) == 1..Len(m.demands)

\* assign_once with >= in place of ==
assign_once_at_least(column, tank_indices) == SumFun(column, tank_indices) >= 1

\* assign_once with <= in place of ==
assign_once_at_most(column, tank_indices) == SumFun(column, tank_indices) <= 1

\* sum(assign[tank, demand] for tank in tank_indices) == 1
assign_once(column, tank_indices) == SumFun(column, tank_indices) = 1

\* capacity_added that counts the first demand only
capacity_added_first_only(m, assign, tank) == m.demands[1] * assign[1][tank]

\* solver.Sum(demands[demand] * assign[tank, demand] for demand in demand_indices)
capacity_added(m, assign, tank) ==
    SumFun([d \in DemandIx(m) |-> m.demands[d] * assign[d][tank]], DemandIx(m))

\* capacity_added <= spare
capacity(added, spare) == added <= spare

\* use_link left out: the row is not added
use_link_absent(assign, use_tank, tank, demand) == TRUE

\* use_tank[tank] >= assign[tank, demand]
use_link(assign, use_tank, tank, demand) == use_tank[tank] >= assign[demand][tank]

\* balance with <= in place of ==
balance_at_most(stranded, added, spare) == stranded + added <= spare

\* tank_solve_d: stranded[tank] + capacity_added == spare
balance(stranded, added, spare) == stranded + added = spare

\* big_m_rows without the lower row (line 91)
big_m_rows_no_lower(stranded, added, spare, use) ==
    LET big_m == spare
    IN /\ stranded <= spare - added + big_m * (1 - use)
       /\ stranded <= big_m * use

\* tank_solve_c: the three big-M rows, big_m = spare
big_m_rows(stranded, added, spare, use) ==
    LET big_m == spare
    IN /\ stranded <= spare - added + big_m * (1 - use)
       /\ stranded >= spare - added - big_m * (1 - use)
       /\ stranded <= big_m * use

\* the rows that tie stranded[tank] to the assignment, by variant
stranded_rows(form, stranded, added, spare, use) ==
    IF form = "d"
    THEN balance(stranded, added, spare)
    ELSE big_m_rows(stranded, added, spare, use)

RECURSIVE ProductSeq(_, _)
\* the sequences of length n whose i-th entry is in choices[i]
ProductSeq(choices, n) ==
    IF n = 0 THEN {<<>>}
    ELSE {Append(p, v) : p \in ProductSeq(choices, n - 1), v \in choices[n]}

FeasibleSolutions(m) ==
    LET T == Tanks(m)
        D == DemandIx(m)
        columns == {col \in [T -> {0, 1}] : assign_once(col, T)}
        assigns == {a \in [D -> columns] :
                       \A t \in T : capacity(capacity_added(m, a, t), m.spare[t])}
        uses(a) == {u \in [T -> {0, 1}] :
                       \A t \in T, d \in D : use_link(a, u, t, d)}
        strandeds(a, u) ==
            ProductSeq([t \in T |->
                          LET added == capacity_added(m, a, t)
                          IN {v \in 0..m.spare[t] :
                                stranded_rows(m.form, v, added, m.spare[t], u[t])}],
                       Len(m.spare))
    IN UNION { UNION { {[assign |-> a, use_tank |-> u, stranded |-> s] :
                           s \in strandeds(a, u)} : u \in uses(a) } :
               a \in assigns }

\* Objective without the usage term
Objective_without_penalty(m, sol) ==
    SumFun([t \in Tanks(m) |-> WeightValue(m.weights[t]) * sol.stranded[t]],
           Tanks(m))

\* sum(weights[tank] * stranded[tank]) + tank_usage_penalty * sum(use_tank)
Objective(m, sol) ==
    SumFun([t \in Tanks(m) |-> WeightValue(m.weights[t]) * sol.stranded[t]],
           Tanks(m))
    + m.penalty * SumFun(sol.use_tank, Tanks(m))

OptimalSolutions(m) ==
    LET F == FeasibleSolutions(m)
        values == {Objective(m, s) : s \in F}
        best == CHOOSE x \in values : \A y \in values : x <= y
    IN {s \in F : Objective(m, s) = best}

(***************************************************************************)
(* The result tables.                                                      *)
(***************************************************************************)
\* ResultRow with new_level = placed, the current level left out
ResultRow_level_is_placed(row, placed_demands, placed, stranded) ==
    [max_level |-> row.max_level, current_level |-> row.current_level,
     demands |-> placed_demands, placed |-> placed,
     new_level |-> placed, stranded |-> stranded]

\* one row of the returned table: the caller's columns and the four new ones
ResultRow(row, placed_demands, placed, stranded) ==
    [max_level |-> row.max_level, current_level |-> row.current_level,
     demands |-> placed_demands, placed |-> placed,
     new_level |-> row.current_level + placed, stranded |-> stranded]

\* EmptyResult with tank_solve_c's stranded column in both variants
EmptyResult_zero(v, table) ==
    [t \in 1..Len(table) |->
        [max_level |-> table[t].max_level,
         current_level |-> table[t].current_level,
         demands |-> <<>>, placed |-> 0,
         new_level |-> table[t].current_level, stranded |-> 0]]

\* the table returned for an empty demand list
EmptyResult(v, table) ==
    [t \in 1..Len(table) |->
        ResultRow(table[t], <<>>, 0,
                  IF v = "d"
                  THEN table[t].max_level - table[t].current_level
                  ELSE 0)]

RECURSIVE Allocations(_, _, _, _)
\* the volumes of the demands d..Len(demands) whose assign value exceeds 0.5
Allocations(m, sol, tank, d) ==
    IF d > Len(m.demands) THEN <<>>
    ELSE (IF 2 * sol.assign[d][tank] > 1 THEN <<m.demands[d]>> ELSE <<>>)
         \o Allocations(m, sol, tank, d + 1)

\* the table decoded from the solver's solution
Decode(m, sol, table) ==
    [t \in 1..Len(table) |->
        LET allocations == Allocations(m, sol, t, 1)
            placed_volume == SumSeq(allocations)
        IN ResultRow(table[t], allocations, placed_volume, sol.stranded[t])]

(***************************************************************************)
(* One call, step by step.                                                 *)
(***************************************************************************)
NoTable == <<>>
NoSolver == [created |-> FALSE, model |-> NoModel,
             status |-> "NOT_SOLVED", solution |-> NoSolution]
None == <<>>
NoReturn == [kind |-> "none", ok |-> FALSE, result |-> None, error |-> "none"]
Returned(ok, result) ==
    [kind |-> "return", ok |-> ok, result |-> result, error |-> "none"]
Raised(error) ==
    [kind |-> "raise", ok |-> FALSE, result |-> None, error |-> error]

\* the caller calls tank_solve_d or tank_solve_c; the call creates its solver
Call(v, table, dem, penalty) ==
    /\ pc = "idle"
    /\ variant' = v
    /\ tanks_df' = table
    /\ demands' = dem
    /\ tank_usage_penalty' = penalty
    /\ solver' = [NoSolver EXCEPT !.created = TRUE]
    /\ ret' = NoReturn
    /\ pc' = "created"

\* any_negative that finds nothing: the check is skipped
any_negative_skipped(demand_list) == FALSE

\* any(d < 0 for d in demands)
any_negative(demand_list) == \E d \in 1..Len(demand_list) : demand_list[d] < 0

\* tank_solve_d: a negative demand raises ValueError
DemandsRejected ==
    /\ pc = "created"
    /\ variant = "d"
    /\ any_negative(demands)
    /\ ret' = Raised("ValueError")
    /\ pc' = "raised"
    /\ UNCHANGED <<variant, tanks_df, demands, tank_usage_penalty, solver>>

\* demands = list(demands), and in tank_solve_d no demand is negative
DemandsListed ==
    /\ pc = "created"
    /\ variant = "d" => ~any_negative(demands)
    /\ pc' = "listed"
    /\ UNCHANGED <<variant, tanks_df, demands, tank_usage_penalty, solver, ret>>

\* if not demands: return True, df
EmptyReturn ==
    /\ pc = "listed"
    /\ demands = <<>>
    /\ ret' = Returned(TRUE, EmptyResult(variant, tanks_df))
    /\ pc' = "returned"
    /\ UNCHANGED <<variant, tanks_df, demands, tank_usage_penalty, solver>>

\* if (spare_capacity < 0).any(): raise ValueError
SpareRejected ==
    /\ pc = "listed"
    /\ demands # <<>>
    /\ \E t \in 1..Len(tanks_df) : SpareCapacity(tanks_df)[t] < 0
    /\ ret' = Raised("ValueError")
    /\ pc' = "raised"
    /\ UNCHANGED <<variant, tanks_df, demands, tank_usage_penalty, solver>>

\* the weights of a call, by variant
WeightsOf(v, spare_capacity) ==
    IF v = "d"
    THEN _lexicographic_weights(spare_capacity)
    ELSE Return(PowerWeights(spare_capacity))

\* the variables, constraints and objective a call adds to its solver
BuiltModel(v, table, demand_list, penalty) ==
    [built |-> TRUE, form |-> v,
     spare |-> SpareCapacity(table), demands |-> demand_list,
     weights |-> WeightsOf(v, SpareCapacity(table)).value,
     penalty |-> penalty]

\* variables, constraints, weights and objective are added to the solver
BuildModel ==
    /\ pc = "listed"
    /\ demands # <<>>
    /\ \A t \in 1..Len(tanks_df) : SpareCapacity(tanks_df)[t] >= 0
    /\ LET weights == WeightsOf(variant, SpareCapacity(tanks_df))
       IN IF weights.raised # "none"
          THEN \* line 141 raises after the variables and constraints of
               \* lines 105-139 were added
               /\ ret' = Raised(weights.raised)
               /\ pc' = "raised"
               /\ solver' = [solver EXCEPT !.model =
                               BuiltModel(variant, tanks_df, demands,
                                          tank_usage_penalty)]
          ELSE /\ solver' = [solver EXCEPT !.model =
                               BuiltModel(variant, tanks_df, demands,
                                          tank_usage_penalty)]
               /\ pc' = "built"
               /\ ret' = ret
    /\ UNCHANGED <<variant, tanks_df, demands, tank_usage_penalty>>

\* solver.Solve() finds an optimal solution
SolveOptimal ==
    /\ pc = "built"
    /\ \E sol \in OptimalSolutions(solver.model) :
          solver' = [solver EXCEPT !.status = "OPTIMAL", !.solution = sol]
    /\ pc' = "solved"
    /\ UNCHANGED <<variant, tanks_df, demands, tank_usage_penalty, ret>>

\* solver.Solve() finds the model infeasible
SolveInfeasible ==
    /\ pc = "built"
    /\ FeasibleSolutions(solver.model) = {}
    /\ solver' = [solver EXCEPT !.status = "INFEASIBLE"]
    /\ pc' = "solved"
    /\ UNCHANGED <<variant, tanks_df, demands, tank_usage_penalty, ret>>

\* ReturnFailure that raises instead of returning the pair
ReturnFailure_raises ==
    /\ pc = "solved"
    /\ solver.status # "OPTIMAL"
    /\ ret' = Raised("RuntimeError")
    /\ pc' = "raised"
    /\ UNCHANGED <<variant, tanks_df, demands, tank_usage_penalty, solver>>

\* if not ok: return False, None
ReturnFailure ==
    /\ pc = "solved"
    /\ solver.status # "OPTIMAL"
    /\ ret' = Returned(FALSE, None)
    /\ pc' = "returned"
    /\ UNCHANGED <<variant, tanks_df, demands, tank_usage_penalty, solver>>

\* ReturnResult without the copy: the columns are written to the caller's
\* table, which is returned
ReturnResult_in_place ==
    /\ pc = "solved"
    /\ solver.status = "OPTIMAL"
    /\ tanks_df' = Decode(solver.model, solver.solution, tanks_df)
    /\ ret' = Returned(TRUE, tanks_df')
    /\ pc' = "returned"
    /\ UNCHANGED <<variant, demands, tank_usage_penalty, solver>>

\* the solution is decoded into a copy of the table: return True, result
ReturnResult ==
    /\ pc = "solved"
    /\ solver.status = "OPTIMAL"
    /\ ret' = Returned(TRUE, Decode(solver.model, solver.solution, tanks_df))
    /\ pc' = "returned"
    /\ UNCHANGED <<variant, tanks_df, demands, tank_usage_penalty, solver>>

(***************************************************************************)
(* The call state while only the weight generator runs, and the reverse.   *)
(***************************************************************************)
CallIdle ==
    /\ pc = "idle"
    /\ variant = "d"
    /\ tanks_df = NoTable
    /\ demands = <<>>
    /\ tank_usage_penalty = 1
    /\ solver = NoSolver
    /\ ret = NoReturn

WeightsIdle ==
    /\ wpc = "idle"
    /\ spare_series = <<>>
    /\ weights_out = NoWeights

\* no runner call is under way
RunIdle ==
    run = [pc |-> "idle", scenarios |-> <<>>, done |-> 0, ok |-> TRUE,
           objective_value |-> <<>>, iteration |-> <<>>,
           ret |-> [kind |-> "none"]]

\* no side-by-side call is under way and no solver was created
SideIdle ==
    /\ calls = [i \in 1..2 |-> [pc |-> "idle"]]
    /\ solvers = <<>>

InitW == InitWeights /\ CallIdle /\ RunIdle /\ SideIdle

NextW ==
    \/ WeightsReturn /\ UNCHANGED <<callVars, runVars, sideVars>>
    \/ WeightsRaise /\ UNCHANGED <<callVars, runVars, sideVars>>

SpecW == InitW /\ [][NextW]_vars

(***************************************************************************)
(* The calls: a caller calls tank_solve_d or tank_solve_c with some input,  *)
(* and the call runs to its return or its exception.                       *)
(***************************************************************************)
Init == CallIdle /\ WeightsIdle /\ RunIdle /\ SideIdle

Next ==
    \/ /\ pc = "idle"
       /\ \E v \in {"c", "d"}, input \in CallInputs,
             penalty \in {0, MaxPenalty} :
             Call(v, input[1], input[2], penalty)
       /\ UNCHANGED <<weightVars, runVars, sideVars>>
    \/ DemandsRejected /\ UNCHANGED <<weightVars, runVars, sideVars>>
    \/ DemandsListed /\ UNCHANGED <<weightVars, runVars, sideVars>>
    \/ EmptyReturn /\ UNCHANGED <<weightVars, runVars, sideVars>>
    \/ SpareRejected /\ UNCHANGED <<weightVars, runVars, sideVars>>
    \/ BuildModel /\ UNCHANGED <<weightVars, runVars, sideVars>>
    \/ SolveOptimal /\ UNCHANGED <<weightVars, runVars, sideVars>>
    \/ SolveInfeasible /\ UNCHANGED <<weightVars, runVars, sideVars>>
    \/ ReturnFailure /\ UNCHANGED <<weightVars, runVars, sideVars>>
    \/ ReturnResult /\ UNCHANGED <<weightVars, runVars, sideVars>>

Spec == Init /\ [][Next]_vars

(***************************************************************************)
(* tank_solve of exercise6.py.  The call has no validation and no special  *)
(* case for an empty list: it builds its model, solves it and decodes.     *)
(* A solution gives x_vars as assign[d][t] in {0, 1} (BoolVar) and         *)
(* stranded_vars as stranded[t] in 0..tank_remaining[t] (IntVar); an       *)
(* IntVar whose upper bound is below 0 has no value, so the model has no   *)
(* solution.                                                               *)
(***************************************************************************)
\* list((tanks_df.max_level - tanks_df.current_level).astype(int))
tank_remaining(table) ==
    [t \in 1..Len(table) |-> table[t].max_level - table[t].current_level]

\* the variables, constraints and objective tank_solve adds to its model
BuiltModel6(table, demand_list) ==
    [built |-> TRUE, form |-> "6",
     spare |-> tank_remaining(table), demands |-> demand_list]

\* tank_is_used = sum(x_vars[tank, demand] for demand in all_demands)
tank_is_used(m, x_vars, tank) ==
    SumFun([d \in DemandIx(m) |-> x_vars[d][tank]], DemandIx(m))

\* final_remaining = tank_remaining[tank] - capacity_added
final_remaining(m, x_vars, tank) == m.spare[tank] - capacity_added(m, x_vars, tank)

\* the three rows on stranded_vars[tank], big_M = tank_remaining[tank]
stranded_vars_rows(stranded, remaining, big_M, used) ==
    /\ stranded <= remaining
    /\ stranded <= big_M * used
    /\ stranded >= remaining - big_M * (1 - used)

\* the assignments that place each demand once and leave final_remaining >= 0
Assignments6(m) ==
    LET T == Tanks(m)
        D == DemandIx(m)
        columns == {col \in [T -> {0, 1}] : SumFun(col, T) = 1}
    IN {a \in [D -> columns] : \A t \in T : final_remaining(m, a, t) >= 0}

FeasibleSolutions6(m) ==
    LET T == Tanks(m)
        strandeds(a) ==
            ProductSeq([t \in T |->
                          {v \in 0..m.spare[t] :
                             stranded_vars_rows(v, final_remaining(m, a, t),
                                                m.spare[t],
                                                tank_is_used(m, a, t))}],
                       Len(m.spare))
    IN UNION { {[assign |-> a, stranded |-> s] : s \in strandeds(a)} :
               a \in Assignments6(m) }

\* total_stranded = sum(stranded_vars[tank] for tank in all_tanks)
total_stranded(m, sol) == SumFun(sol.stranded, Tanks(m))

\* sum(1000 * sum(x_vars[tank, demand] for demand in all_demands)
\*     for tank in all_tanks)
usage_penalty6(m, sol) ==
    SumFun([t \in Tanks(m) |-> 1000 * tank_is_used(m, sol.assign, t)], Tanks(m))

\* model.Minimize(total_stranded + tank_usage_penalty)
Objective6(m, sol) == total_stranded(m, sol) + usage_penalty6(m, sol)

OptimalSolutions6(m) ==
    LET F == FeasibleSolutions6(m)
        values == {Objective6(m, s) : s \in F}
        best == CHOOSE x \in values : \A y \in values : x <= y
    IN {s \in F : Objective6(m, s) = best}

RECURSIVE tank_demands(_, _, _, _)
\* the demands d..len(demands) with x_vars[tank, demand].solution_value() > 0
tank_demands(m, sol, tank, d) ==
    IF d > Len(m.demands) THEN <<>>
    ELSE (IF sol.assign[d][tank] > 0 THEN <<m.demands[d]>> ELSE <<>>)
         \o tank_demands(m, sol, tank, d + 1)

\* the table tank_solve returns: the caller's columns, demands, placed,
\* new_level, stranded_var and stranded
Decode6(m, sol, table) ==
    [t \in 1..Len(table) |->
        LET placed_demands == tank_demands(m, sol, t, 1)
            placed == SumSeq(placed_demands)
            new_level == table[t].current_level + placed
        IN [max_level |-> table[t].max_level,
            current_level |-> table[t].current_level,
            demands |-> placed_demands, placed |-> placed,
            new_level |-> new_level,
            stranded_var |-> sol.stranded[t],
            stranded |-> IF placed > 0
                         THEN table[t].max_level - new_level ELSE 0]]

\* the caller calls tank_solve; the call creates its solver
Call6(table, dem) ==
    /\ pc = "idle"
    /\ variant' = "6"
    /\ tanks_df' = table
    /\ demands' = dem
    /\ solver' = [NoSolver EXCEPT !.created = TRUE]
    /\ ret' = NoReturn
    /\ pc' = "created"
    /\ UNCHANGED tank_usage_penalty

\* variables, constraints and objective are added to the model
BuildModel6 ==
    /\ pc = "created"
    /\ variant = "6"
    /\ solver' = [solver EXCEPT !.model = BuiltModel6(tanks_df, demands)]
    /\ pc' = "built"
    /\ UNCHANGED <<variant, tanks_df, demands, tank_usage_penalty, ret>>

\* model.Solve() finds an optimal solution
SolveOptimal6 ==
    /\ pc = "built"
    /\ variant = "6"
    /\ \E sol \in OptimalSolutions6(solver.model) :
          solver' = [solver EXCEPT !.status = "OPTIMAL", !.solution = sol]
    /\ pc' = "solved"
    /\ UNCHANGED <<variant, tanks_df, demands, tank_usage_penalty, ret>>

\* model.Solve() finds no solution
SolveInfeasible6 ==
    /\ pc = "built"
    /\ variant = "6"
    /\ FeasibleSolutions6(solver.model) = {}
    /\ solver' = [solver EXCEPT !.status = "INFEASIBLE"]
    /\ pc' = "solved"
    /\ UNCHANGED <<variant, tanks_df, demands, tank_usage_penalty, ret>>

\* if not ok: return ok, None
ReturnFailure6 ==
    /\ pc = "solved"
    /\ variant = "6"
    /\ solver.status # "OPTIMAL"
    /\ ret' = Returned(FALSE, None)
    /\ pc' = "returned"
    /\ UNCHANGED <<variant, tanks_df, demands, tank_usage_penalty, solver>>

\* the solution is decoded into a copy of the table: return ok, df
ReturnResult6 ==
    /\ pc = "solved"
    /\ variant = "6"
    /\ solver.status = "OPTIMAL"
    /\ ret' = Returned(TRUE, Decode6(solver.model, solver.solution, tanks_df))
    /\ pc' = "returned"
    /\ UNCHANGED <<variant, tanks_df, demands, tank_usage_penalty, solver>>

Next6 ==
    \/ /\ \E input \in SmallTables \X SmallDemands : Call6(input[1], input[2])
       /\ UNCHANGED <<weightVars, runVars, sideVars>>
    \/ BuildModel6 /\ UNCHANGED <<weightVars, runVars, sideVars>>
    \/ SolveOptimal6 /\ UNCHANGED <<weightVars, runVars, sideVars>>
    \/ SolveInfeasible6 /\ UNCHANGED <<weightVars, runVars, sideVars>>
    \/ ReturnFailure6 /\ UNCHANGED <<weightVars, runVars, sideVars>>
    \/ ReturnResult6 /\ UNCHANGED <<weightVars, runVars, sideVars>>

Spec6 == Init /\ [][Next6]_vars

(***************************************************************************)
(* tank_solve_d as one step: what a call with the given arguments returns  *)
(* or raises.  Solve may answer with any optimal solution, so the outcomes *)
(* form a set.                                                             *)
(***************************************************************************)
tank_solve_d(table, demand_list, penalty) ==
    IF any_negative(demand_list) THEN {Raised("ValueError")}
    ELSE IF demand_list = <<>>
    THEN {Returned(TRUE, EmptyResult("d", table))}
    ELSE IF \E t \in 1..Len(table) : SpareCapacity(table)[t] < 0
    THEN {Raised("ValueError")}
    ELSE LET weights == WeightsOf("d", SpareCapacity(table))
             m == BuiltModel("d", table, demand_list, penalty)
         IN IF weights.raised # "none" THEN {Raised(weights.raised)}
            ELSE IF FeasibleSolutions(m) = {} THEN {Returned(FALSE, None)}
            ELSE {Returned(TRUE, Decode(m, sol, table)) :
                     sol \in OptimalSolutions(m)}

(***************************************************************************)
(* run_iterative_scenarios.  The locals objective_value and iteration are  *)
(* <<>> while None / not yet bound, and <<v>> once they hold v.  Printing   *)
(* changes no state and is left out.                                       *)
(***************************************************************************)
\* the scenarios of a run: one-tank tables with at most one demand, and the
\* scenarios on base_case
RunScenarios ==
    ({tb \in SmallTables : Len(tb) = 1} \X {dl \in SmallDemands : Len(dl) <= 1})
        \cup ({base_case} \X (ScenarioDemands \cup TightDemands))

RunInputs == UNION {[1..n -> RunScenarios] : n \in 0..MaxScenarios}

SolveDiagnostics(ok, objective_value, iterations) ==
    [kind |-> "return", ok |-> ok, objective_value |-> objective_value,
     iterations |-> iterations]

\* placement.get("stranded", ...).sum()
stranded_sum(placement) ==
    SumFun([t \in 1..Len(placement) |-> placement[t].stranded],
           1..Len(placement))

\* the call: objective_value = None, ok = True; iteration is not bound
RunCall(scenarios) ==
    /\ run.pc = "idle"
    /\ run' = [pc |-> "loop", scenarios |-> scenarios, done |-> 0,
               ok |-> TRUE, objective_value |-> <<>>, iteration |-> <<>>,
               ret |-> [kind |-> "none"]]

\* one pass of the loop body in which tank_solve_d returns
RunScenario ==
    /\ run.pc = "loop"
    /\ run.done < Len(run.scenarios)
    /\ LET scenario == run.scenarios[run.done + 1]
       IN \E outcome \in tank_solve_d(scenario[1], scenario[2], 1) :
             /\ outcome.kind = "return"
             /\ run' = [run EXCEPT
                          !.iteration = <<run.done + 1>>,
                          !.done = @ + 1,
                          !.ok = @ /\ outcome.ok,
                          !.objective_value =
                              IF outcome.ok
                              THEN <<stranded_sum(outcome.result)>> ELSE @]

\* one pass of the loop body in which tank_solve_d raises: the exception
\* leaves run_iterative_scenarios
RunScenarioRaises ==
    /\ run.pc = "loop"
    /\ run.done < Len(run.scenarios)
    /\ LET scenario == run.scenarios[run.done + 1]
       IN \E outcome \in tank_solve_d(scenario[1], scenario[2], 1) :
             /\ outcome.kind = "raise"
             /\ run' = [run EXCEPT
                          !.iteration = <<run.done + 1>>,
                          !.pc = "raised",
                          !.ret = [kind |-> "raise", error |-> outcome.error]]

\* return SolveDiagnostics(ok=ok, objective_value=objective_value,
\*                         iterations=iteration)
RunReturn ==
    /\ run.pc = "loop"
    /\ run.done = Len(run.scenarios)
    /\ run.iteration # <<>>
    /\ run' = [run EXCEPT
                 !.pc = "returned",
                 !.ret = SolveDiagnostics(run.ok, run.objective_value,
                                          run.iteration[1])]

\* the return statement reads iteration, which the loop never bound
RunReturnUnbound ==
    /\ run.pc = "loop"
    /\ run.done = Len(run.scenarios)
    /\ run.iteration = <<>>
    /\ run' = [run EXCEPT
                 !.pc = "raised",
                 !.ret = [kind |-> "raise", error |-> "UnboundLocalError"]]

NextR ==
    \/ /\ \E scenarios \in RunInputs : RunCall(scenarios)
       /\ UNCHANGED <<callVars, weightVars, sideVars>>
    \/ RunScenario /\ UNCHANGED <<callVars, weightVars, sideVars>>
    \/ RunScenarioRaises /\ UNCHANGED <<callVars, weightVars, sideVars>>
    \/ RunReturn /\ UNCHANGED <<callVars, weightVars, sideVars>>
    \/ RunReturnUnbound /\ UNCHANGED <<callVars, weightVars, sideVars>>

SpecR == Init /\ [][NextR]_vars

(***************************************************************************)
(* Two tank_solve_d calls running side by side (threads of one process).   *)
(* solvers is the heap of solver instances; a call holds the handle of the *)
(* instance _build_solver gave it, and its arguments, status and return    *)
(* value are its own locals.  The steps of the two calls interleave        *)
(* freely.                                                                 *)
(***************************************************************************)
\* _build_solver that hands every caller one and the same instance
_build_solver_shared(heap) ==
    [handle |-> 1,
     heap |-> IF heap = <<>> THEN <<[NoSolver EXCEPT !.created = TRUE]>>
              ELSE heap]

\* pywraplp.Solver.CreateSolver("SCIP") makes a new instance at every call
_build_solver(heap) ==
    [handle |-> Len(heap) + 1,
     heap |-> Append(heap, [NoSolver EXCEPT !.created = TRUE])]

\* the arguments of the side-by-side calls: two tanks and two demands
\* (feasible, feasible with a zero demand, infeasible, a negative demand, a
\* tank above its max_level) and an empty list
SideTable(level_1, level_2) ==
    << [max_level |-> MaxLevel, current_level |-> level_1],
       [max_level |-> MaxLevel, current_level |-> level_2] >>

SideInputs ==
    { <<SideTable(MaxLevel - 1, 0), <<1, 1>>>>,
      <<SideTable(MaxLevel - 1, 0), <<1, 0>>>>,
      <<SideTable(MaxLevel, MaxLevel - 1), <<1, 1>>>>,
      <<SideTable(MaxLevel - 1, 0), <<-1, 1>>>>,
      <<SideTable(MaxLevel + 1, 0), <<1, 1>>>>,
      <<SideTable(MaxLevel - 1, 0), <<>>>> }

\* call i moves to newpc with the return value newret
SideStep(i, newpc, newret) ==
    calls' = [calls EXCEPT ![i].pc = newpc, ![i].ret = newret]

\* solver = _build_solver()
SideCall(i, table, dem) ==
    /\ calls[i].pc = "idle"
    /\ LET built == _build_solver(solvers)
       IN /\ solvers' = built.heap
          /\ calls' = [calls EXCEPT ![i] =
                         [pc |-> "created", tanks_df |-> table,
                          demands |-> dem, tank_usage_penalty |-> 1,
                          solver |-> built.handle, status |-> "NOT_SOLVED",
                          ret |-> NoReturn]]

\* a negative demand raises ValueError
SideDemandsRejected(i) ==
    /\ calls[i].pc = "created"
    /\ any_negative(calls[i].demands)
    /\ SideStep(i, "raised", Raised("ValueError"))
    /\ UNCHANGED solvers

\* demands = list(demands), no demand is negative
SideDemandsListed(i) ==
    /\ calls[i].pc = "created"
    /\ ~any_negative(calls[i].demands)
    /\ SideStep(i, "listed", calls[i].ret)
    /\ UNCHANGED solvers

\* if not demands: return True, df
SideEmptyReturn(i) ==
    /\ calls[i].pc = "listed"
    /\ calls[i].demands = <<>>
    /\ SideStep(i, "returned",
                Returned(TRUE, EmptyResult("d", calls[i].tanks_df)))
    /\ UNCHANGED solvers

\* if (spare_capacity < 0).any(): raise ValueError
SideSpareRejected(i) ==
    /\ calls[i].pc = "listed"
    /\ calls[i].demands # <<>>
    /\ \E t \in 1..Len(calls[i].tanks_df) :
          SpareCapacity(calls[i].tanks_df)[t] < 0
    /\ SideStep(i, "raised", Raised("ValueError"))
    /\ UNCHANGED solvers

\* variables, constraints, weights and objective are added to the call's
\* solver instance
SideBuildModel(i) ==
    /\ calls[i].pc = "listed"
    /\ calls[i].demands # <<>>
    /\ \A t \in 1..Len(calls[i].tanks_df) :
          SpareCapacity(calls[i].tanks_df)[t] >= 0
    /\ solvers' = [solvers EXCEPT ![calls[i].solver].model =
                     BuiltModel("d", calls[i].tanks_df, calls[i].demands,
                                calls[i].tank_usage_penalty)]
    /\ LET weights == WeightsOf("d", SpareCapacity(calls[i].tanks_df))
       IN IF weights.raised # "none"
          THEN SideStep(i, "raised", Raised(weights.raised))
          ELSE SideStep(i, "built", calls[i].ret)

\* status = solver.Solve() finds an optimal solution
SideSolveOptimal(i) ==
    /\ calls[i].pc = "built"
    /\ \E sol \in OptimalSolutions(solvers[calls[i].solver].model) :
          solvers' = [solvers EXCEPT ![calls[i].solver].status = "OPTIMAL",
                                     ![calls[i].solver].solution = sol]
    /\ calls' = [calls EXCEPT ![i].pc = "solved", ![i].status = "OPTIMAL"]

\* status = solver.Solve() finds the model infeasible
SideSolveInfeasible(i) ==
    /\ calls[i].pc = "built"
    /\ FeasibleSolutions(solvers[calls[i].solver].model) = {}
    /\ solvers' = [solvers EXCEPT ![calls[i].solver].status = "INFEASIBLE"]
    /\ calls' = [calls EXCEPT ![i].pc = "solved", ![i].status = "INFEASIBLE"]

\* if not ok: return False, None
SideReturnFailure(i) ==
    /\ calls[i].pc = "solved"
    /\ calls[i].status # "OPTIMAL"
    /\ SideStep(i, "returned", Returned(FALSE, None))
    /\ UNCHANGED solvers

\* the solution values of the call's solver instance are decoded into a copy
\* of the call's table: return True, result
SideReturnResult(i) ==
    /\ calls[i].pc = "solved"
    /\ calls[i].status = "OPTIMAL"
    /\ SideStep(i, "returned",
                Returned(TRUE, Decode(solvers[calls[i].solver].model,
                                      solvers[calls[i].solver].solution,
                                      calls[i].tanks_df)))
    /\ UNCHANGED solvers

NextS ==
    \/ /\ \E i \in 1..2, input \in SideInputs : SideCall(i, input[1], input[2])
       /\ UNCHANGED <<callVars, weightVars, runVars>>
    \/ /\ \E i \in 1..2 : SideDemandsRejected(i)
       /\ UNCHANGED <<callVars, weightVars, runVars>>
    \/ /\ \E i \in 1..2 : SideDemandsListed(i)
       /\ UNCHANGED <<callVars, weightVars, runVars>>
    \/ /\ \E i \in 1..2 : SideEmptyReturn(i)
       /\ UNCHANGED <<callVars, weightVars, runVars>>
    \/ /\ \E i \in 1..2 : SideSpareRejected(i)
       /\ UNCHANGED <<callVars, weightVars, runVars>>
    \/ /\ \E i \in 1..2 : SideBuildModel(i)
       /\ UNCHANGED <<callVars, weightVars, runVars>>
    \/ /\ \E i \in 1..2 : SideSolveOptimal(i)
       /\ UNCHANGED <<callVars, weightVars, runVars>>
    \/ /\ \E i \in 1..2 : SideSolveInfeasible(i)
       /\ UNCHANGED <<callVars, weightVars, runVars>>
    \/ /\ \E i \in 1..2 : SideReturnFailure(i)
       /\ UNCHANGED <<callVars, weightVars, runVars>>
    \/ /\ \E i \in 1..2 : SideReturnResult(i)
       /\ UNCHANGED <<callVars, weightVars, runVars>>

SpecS == Init /\ [][NextS]_vars

(***************************************************************************)
(* Properties of the weight generator, under SpecW.                        *)
(***************************************************************************)
\* every spare capacity of the Series is positive
PositiveSeries == \A i \in 1..Len(spare_series) : spare_series[i] > 0

\* the returned weights listed in priority order, as the repository's test
\* lists them: [weights[tank] for tank in priority_order]
ordered_weights ==
    LET priority_order == sort_values_index(spare_series)
    IN [r \in 1..Len(spare_series) |-> weights_out[priority_order[r]]]

\* C1: for positive spare capacities the weights, listed in priority order,
\* are strictly decreasing: the weight at each rank is strictly greater than
\* the weight at the next rank.
C1_StrictlyDecreasing ==
    (wpc = "returned" /\ PositiveSeries) =>
        LET ordered == ordered_weights
        IN \A r \in 1..(Len(spare_series) - 1) :
              FloatLess(ordered[r + 1], ordered[r])

RECURSIVE GeometricGap(_, _, _, _)
\* base^d minus the sum of base^i over i < d, from G(0) = 1 and
\* G(i + 1) = base * G(i) - 1; g is the value reached with d steps to go.
\* Once g is at least cap (and base >= 2) or at most 0 it stays so, and
\* the walk stops there.
GeometricGap(base, d, g, cap) ==
    IF d = 0 \/ g <= 0 THEN g
    ELSE IF g >= cap THEN cap
    ELSE GeometricGap(base, d - 1, base * g - 1, cap)

\* the weight at rank r (1 = highest priority) is strictly greater than the
\* sum of the weights at the ranks after it.  The weights that are not
\* clamped are u * base^j for consecutive j from 0, u the smallest of them,
\* so the weight minus the unclamped weights after it is u * GeometricGap;
\* the k clamped weights after it are sys.float_info.min each.
ExceedsTail(ordered, r) ==
    LET n == Len(ordered)
        clampedAfter == Cardinality({q \in (r + 1)..n : ordered[q].clamped})
        smallest == ordered[n - clampedAfter]
        gap == GeometricGap(ordered[r].base,
                            ordered[r].exponent - smallest.exponent, 1, n + 1)
    IN IF r = n THEN TRUE
       ELSE IF ordered[r].clamped THEN FALSE
       ELSE IF clampedAfter = 0 THEN gap > 0
       ELSE /\ gap > 0
            /\ Ln(gap) + smallest.ln > Ln(clampedAfter) + LogMin

\* C2: for positive spare capacities every weight is strictly greater than
\* the sum of the weights of all lower-priority ranks.
C2_DominatesLowerRanks ==
    (wpc = "returned" /\ PositiveSeries) =>
        LET ordered == ordered_weights
        IN \A r \in 1..Len(spare_series) : ExceedsTail(ordered, r)

\* C3: for positive spare capacities the call returns one weight per
\* resource, each finite and at least the smallest positive float.
C3_FinitePositive ==
    (wpc = "returned" /\ PositiveSeries) =>
        /\ DOMAIN weights_out = 1..Len(spare_series)
        /\ \A t \in 1..Len(spare_series) :
              /\ IsFinite(weights_out[t])
              /\ weights_out[t].ln >= LogMin

\* a long Series whose weights were rescaled, one of them clamped
C3_Witness ==
    /\ wpc = "returned"
    /\ PositiveSeries
    /\ Len(spare_series) >= 95
    /\ \E t \in 1..Len(spare_series) :
          weights_out[t].offset > 0 /\ weights_out[t].clamped

(***************************************************************************)
(* Properties of the calls, under Spec.                                    *)
(***************************************************************************)
Finished == pc \in {"returned", "raised"}
Succeeded == pc = "returned" /\ ret.kind = "return" /\ ret.ok

TankIx == 1..Len(tanks_df)

\* max_level - current_level of the caller's row
SpareOf(t) == tanks_df[t].max_level - tanks_df[t].current_level

\* the number of entries of the list s equal to v
CountIn(s, v) == Cardinality({i \in 1..Len(s) : s[i] = v})

\* the number of placement-list entries equal to v, over all rows
PlacedCount(result, v) ==
    SumFun([t \in 1..Len(result) |-> CountIn(result[t].demands, v)],
           1..Len(result))

ColumnSum(result, column(_)) ==
    SumFun([t \in 1..Len(result) |-> column(result[t])], 1..Len(result))

PlacedOf(row) == row.placed
StrandedOf(row) == row.stranded

(***************************************************************************)
(* The packings of the demands into the tanks, by the data model alone:    *)
(* each demand in one tank, no tank above its spare capacity.              *)
(***************************************************************************)
LoadOf(packing, t) ==
    SumSeq([d \in 1..Len(demands) |->
               IF packing[d] = t THEN demands[d] ELSE 0])

Packings ==
    {f \in [1..Len(demands) -> TankIx] : \A t \in TankIx : LoadOf(f, t) <= SpareOf(t)}

\* the tanks by ascending initial spare capacity, ties in input order
PriorityPosition(t) ==
    1 + Cardinality({u \in TankIx :
                        \/ SpareOf(u) < SpareOf(t)
                        \/ SpareOf(u) = SpareOf(t) /\ u < t})

TankAtPosition(k) == CHOOSE t \in TankIx : PriorityPosition(t) = k

\* a is lexicographically smaller than b, read in priority order
LexSmaller(a, b) ==
    \E k \in TankIx :
        /\ a[TankAtPosition(k)] < b[TankAtPosition(k)]
        /\ \A j \in 1..(k - 1) : a[TankAtPosition(j)] = b[TankAtPosition(j)]

PackingStranded(f) == [t \in TankIx |-> SpareOf(t) - LoadOf(f, t)]
ResultStranded == [t \in TankIx |-> ret.result[t].stranded]

C5_EveryDemandPlacedOnce ==
    Succeeded =>
        /\ \A d \in 1..Len(demands) :
              PlacedCount(ret.result, demands[d]) = CountIn(demands, demands[d])
        /\ ColumnSum(ret.result, PlacedOf) = SumSeq(demands)
        /\ SumFun([t \in TankIx |-> Len(ret.result[t].demands)], TankIx)
              = Len(demands)

\* a solved call that placed two demands in two different tanks
C5_Witness ==
    /\ Succeeded
    /\ solver.status = "OPTIMAL"
    /\ Len(demands) >= 2
    /\ \E t, u \in TankIx :
          t # u /\ ret.result[t].demands # <<>> /\ ret.result[u].demands # <<>>

\* C6: in a successful result no tank's placed volume exceeds its spare
\* capacity, and no new_level exceeds max_level.
C6_NoOverflow ==
    Succeeded =>
        \A t \in TankIx :
            /\ ret.result[t].placed <= SpareOf(t)
            /\ ret.result[t].new_level <= tanks_df[t].max_level

\* C7: in a successful tank_solve_d result for a non-empty demand list every
\* tank's stranded value is its spare capacity minus its placed volume,
\* touched or not, and the stranded column sums to total spare capacity
\* minus total demand.
C7_StrandedIsSpareMinusPlaced ==
    (Succeeded /\ variant = "d" /\ demands # <<>>) =>
        /\ \A t \in TankIx :
              ret.result[t].stranded = SpareOf(t) - ret.result[t].placed
        /\ ColumnSum(ret.result, StrandedOf)
              = SumFun([t \in TankIx |-> SpareOf(t)], TankIx) - SumSeq(demands)

\* a solved tank_solve_d call that left a tank with spare capacity untouched
C7_Witness ==
    /\ Succeeded /\ variant = "d" /\ demands # <<>>
    /\ \E t, u \in TankIx :
          /\ ret.result[t].demands = <<>> /\ SpareOf(t) > 0
          /\ ret.result[u].placed > 0

\* C8: on the base case with demands [56, 2, 18, 40] tank_solve_d succeeds,
\* the stranded column sums to 164, and tank_2 (the third row, spare 15)
\* ends with the smallest stranded capacity any feasible packing gives it.
C8_BaseCaseScenario ==
    (Finished /\ variant = "d" /\ tanks_df = base_case
        /\ demands = <<56, 2, 18, 40>>) =>
        /\ Succeeded
        /\ ColumnSum(ret.result, StrandedOf) = 164
        /\ \A f \in Packings :
              ret.result[3].stranded <= PackingStranded(f)[3]

\* the base case was solved and decoded
C8_Witness ==
    /\ Succeeded /\ variant = "d" /\ tanks_df = base_case
    /\ demands = <<56, 2, 18, 40>>
    /\ solver.status = "OPTIMAL"
    /\ ret.result[3].demands = <<2>>

\* C9: tank_solve_d with an empty demand list returns success, and every
\* row has an empty placement list, placed 0, new_level = current_level and
\* stranded = max_level - current_level.
C9_EmptyDemandList ==
    (Finished /\ variant = "d" /\ demands = <<>>) =>
        /\ Succeeded
        /\ Len(ret.result) = Len(tanks_df)
        /\ \A t \in TankIx :
              /\ ret.result[t].demands = <<>>
              /\ ret.result[t].placed = 0
              /\ ret.result[t].new_level = tanks_df[t].current_level
              /\ ret.result[t].stranded = SpareOf(t)

\* an empty-list call returned for a table with spare capacity
C9_Witness ==
    /\ Succeeded /\ variant = "d" /\ demands = <<>>
    /\ \E t \in TankIx : SpareOf(t) > 0

\* C10: whatever the demand list, if some tank has current_level above
\* max_level then tank_solve_d raises the validation error and returns no
\* result.
C10_NegativeSpareRejected ==
    (Finished /\ variant = "d" /\ \E t \in TankIx : SpareOf(t) < 0) =>
        /\ ret.kind = "raise"
        /\ ret.error = "ValueError"
        /\ ret.result = None

\* C11: if some volume of the list passed to tank_solve_d is negative, the
\* call ends by raising ValueError and returns no result, whatever the other
\* demands and the tanks are.
C11_NegativeDemandRejected ==
    (Finished /\ variant = "d" /\ \E d \in 1..Len(demands) : demands[d] < 0) =>
        /\ pc = "raised"
        /\ ret = Raised("ValueError")
        /\ solver.model = NoModel

\* a list with a negative and a non-negative volume was rejected, for a
\* table that has a tank above its max_level as well
C11_Witness ==
    /\ pc = "raised" /\ variant = "d"
    /\ ret.error = "ValueError"
    /\ \E d, e \in 1..Len(demands) : demands[d] < 0 /\ demands[e] > 0
    /\ \E t \in TankIx : SpareOf(t) < 0

\* C12: when Solve reports a status other than OPTIMAL the call returns the
\* pair (False, None) and raises nothing; and in every return of either
\* variant the flag is True exactly when the result table is present.
C12_FailureIsReturned ==
    /\ (Finished /\ solver.model # NoModel /\ solver.status # "OPTIMAL") =>
          /\ pc = "returned"
          /\ ret = Returned(FALSE, None)
    /\ pc = "returned" =>
          /\ ret.kind = "return"
          /\ ret.ok <=> ret.result # None

\* a tank_solve_c call whose model was infeasible returned the failure pair
C12_Witness ==
    /\ pc = "returned" /\ variant = "c"
    /\ solver.status = "INFEASIBLE"
    /\ ret.ok = FALSE /\ ret.result = None

\* the demand list of the call in another order
Reordered(perm) == [i \in 1..Len(demands) |-> demands[perm[i]]]

\* what Solve can answer for a model: the objective value and the stranded
\* total of each of its optimal solutions (no pair when it is infeasible)
Outcomes(m) ==
    {<<Objective(m, sol), SumFun(sol.stranded, Tanks(m))>> :
        sol \in OptimalSolutions(m)}

\* C13: when tank_solve_d hands its model to the solver, the objective
\* value and the stranded total it can get back are one pair at most, and
\* the model built from the same tanks and any reordering of the demand
\* list gives the same pair, or is infeasible too; the stranded column of
\* the returned table sums to that total.
C13_OrderIndependent ==
    /\ (pc = "built" /\ variant = "d") =>
          LET here == Outcomes(solver.model)
          IN /\ Cardinality(here) <= 1
             /\ \A other \in {Reordered(perm) :
                                 perm \in Permutations(1..Len(demands))} :
                   Outcomes(BuiltModel("d", tanks_df, other,
                                       tank_usage_penalty)) = here
    /\ (Succeeded /\ variant = "d" /\ solver.model # NoModel) =>
          ColumnSum(ret.result, StrandedOf)
              = SumFun(solver.solution.stranded, TankIx)

\* the base case was solved for [56, 18, 2, 40], and the list in the order
\* [56, 2, 18, 40] has an optimal solution with another assignment
C13_Witness ==
    /\ Succeeded /\ variant = "d" /\ tanks_df = base_case
    /\ demands = <<56, 18, 2, 40>>
    /\ \E sol \in OptimalSolutions(BuiltModel("d", tanks_df, <<56, 2, 18, 40>>,
                                              tank_usage_penalty)) :
          sol.assign # solver.solution.assign

\* the Series the contract of the weight generator admits: every spare
\* capacity at least 0, not all of them 0
AdmittedSeries ==
    /\ \A i \in 1..Len(spare_series) : spare_series[i] >= 0
    /\ \E i \in 1..Len(spare_series) : spare_series[i] > 0

\* C14: of two resources with equal spare capacity the one that comes first
\* in the input ranks higher (it gets the larger exponent) and gets the
\* strictly larger weight.
C14_TiesInInputOrder ==
    (wpc = "returned" /\ AdmittedSeries) =>
        \A i, j \in 1..Len(spare_series) :
            (i < j /\ spare_series[i] = spare_series[j]) =>
                /\ weights_out[i].exponent > weights_out[j].exponent
                /\ FloatLess(weights_out[j], weights_out[i])

\* C15 as stated: a Series whose sum is zero or negative makes the call
\* raise ValueError and return no weights.
C15_NonPositiveSumRejected ==
    (wpc # "ready" /\ SumSeq(spare_series) <= 0) =>
        /\ wpc = "raised"
        /\ weights_out = NoWeights

\* C15 as amended: the call raises ValueError, and returns no weights,
\* exactly when the sum is at most -1, that is when the base sum + 1 is not
\* positive; for every larger sum, zero included, it returns one weight per
\* resource.
C15_NonPositiveBaseRejected ==
    wpc # "ready" =>
        IF SumSeq(spare_series) <= -1
        THEN wpc = "raised" /\ weights_out = NoWeights
        ELSE wpc = "returned" /\ DOMAIN weights_out = 1..Len(spare_series)

\* a Series whose sum is exactly -1 (base 0) was rejected
C15_Witness ==
    /\ wpc = "raised"
    /\ Len(spare_series) >= 2
    /\ SumSeq(spare_series) = -1

\* C16: from the call on, no step of tank_solve_d or tank_solve_c changes
\* the caller's table or demand sequence, whether the call returns a table,
\* returns the failure pair or raises; the table keeps its two columns, and
\* the placement columns are on the returned table only.
C16_InputsUntouched ==
    [][pc # "idle" =>
          /\ tanks_df' = tanks_df
          /\ demands' = demands
          /\ \A t \in 1..Len(tanks_df') :
                DOMAIN tanks_df'[t] = {"max_level", "current_level"}]_vars

\* a call returned a table with a placement in it, beside the caller's table
C16_Witness ==
    /\ Succeeded
    /\ \E t \in TankIx :
          /\ ret.result[t].placed > 0
          /\ "placed" \notin DOMAIN tanks_df[t]

\* C17: a successful result of either variant has one row per input tank,
\* in the input's order and with the input's columns; in each row placed is
\* the sum of the row's demands list and new_level is current_level + placed.
C17_RowPerTank ==
    Succeeded =>
        /\ Len(ret.result) = Len(tanks_df)
        /\ \A t \in TankIx :
              /\ ret.result[t].max_level = tanks_df[t].max_level
              /\ ret.result[t].current_level = tanks_df[t].current_level
              /\ ret.result[t].placed = SumSeq(ret.result[t].demands)
              /\ ret.result[t].new_level
                    = tanks_df[t].current_level + ret.result[t].placed

\* a solved tank_solve_c call put two demands into a tank that was not empty
C17_Witness ==
    /\ Succeeded /\ variant = "c"
    /\ solver.status = "OPTIMAL"
    /\ \E t \in TankIx :
          /\ Len(ret.result[t].demands) >= 2
          /\ ret.result[t].placed > 0
          /\ tanks_df[t].current_level > 0

\* some weight of the returned dict was clamped to sys.float_info.min
SomeClamped == \E t \in 1..Len(spare_series) : weights_out[t].clamped

\* C18: when one or more low-priority ranks are clamped to the smallest
\* positive float, any two distinct ranks still get different weights, the
\* higher-priority one strictly larger, two clamped ranks included.
C18_ClampKeepsOrder ==
    (wpc = "returned" /\ SomeClamped) =>
        LET ordered == ordered_weights
        IN \A r, q \in 1..Len(spare_series) :
              r < q => FloatLess(ordered[q], ordered[r])

\* the rank of a resource, counted from 0: the resources with less spare
\* capacity, and those with the same that come before it in the input
ExpectedRank(t) ==
    Cardinality({u \in 1..Len(spare_series) :
                    \/ spare_series[u] < spare_series[t]
                    \/ spare_series[u] = spare_series[t] /\ u < t})

\* C19: with B = sum + 1 and n resources, when (n-1) log B is at most
\* log(MAX_FINITE) - margin the offset is 0 and rank r gets the weight
\* B^(n-1-r), the lowest rank exactly 1; otherwise every weight that is not
\* clamped is B^(n-1-r) scaled by the one factor exp(-offset), consecutive
\* unclamped weights are a factor B apart, and the largest weight is below
\* MAX_FINITE.
C19_PowersOfBase ==
    wpc = "returned" =>
        LET n == Len(spare_series)
            B == SumSeq(spare_series) + 1
            span == (n - 1) * Ln(B)
            offset == span - LogMaxFinite + margin
            ordered == ordered_weights
        IN /\ \A t \in 1..n :
                 /\ weights_out[t].base = B
                 /\ weights_out[t].exponent = n - 1 - ExpectedRank(t)
           /\ IF span <= LogMaxFinite - margin
              THEN /\ \A t \in 1..n :
                         /\ ~weights_out[t].clamped
                         /\ weights_out[t].offset = 0
                         /\ weights_out[t].ln = weights_out[t].exponent * Ln(B)
                   /\ ordered[n].ln = 0
              ELSE /\ \A t \in 1..n :
                         /\ weights_out[t].offset = offset
                         /\ ~weights_out[t].clamped =>
                               weights_out[t].ln
                                  = weights_out[t].exponent * Ln(B) - offset
                   /\ \A r \in 1..(n - 1) :
                         ~ordered[r + 1].clamped =>
                             ordered[r].ln - ordered[r + 1].ln = Ln(B)
                   /\ ordered[1].ln < LogMaxFinite

\* a long Series was rescaled: the offset is positive and the top weights
\* are not clamped
C19_Witness ==
    /\ wpc = "returned"
    /\ Len(spare_series) >= 80
    /\ LET ordered == ordered_weights
       IN /\ ordered[1].offset > 0
          /\ ~ordered[2].clamped
          /\ ordered[1].ln - ordered[2].ln = Ln(SumSeq(spare_series) + 1)

\* the solver's solution assigns some demand to the tank
Touched(sol, t) == \E d \in 1..Len(demands) : sol.assign[d][t] = 1

\* C20: in every optimal solution of either variant with a positive
\* tank_usage_penalty, use_tank is 1 for the tanks that receive a demand and
\* 0 for every other tank.
C20_UsageIndicator ==
    (pc \in {"solved", "returned"} /\ solver.status = "OPTIMAL"
        /\ tank_usage_penalty > 0) =>
        \A t \in TankIx :
            solver.solution.use_tank[t] = (IF Touched(solver.solution, t)
                                           THEN 1 ELSE 0)

\* an optimal solution of tank_solve_c that uses one tank and leaves a tank
\* with spare capacity unused
C20_Witness ==
    /\ pc = "solved" /\ solver.status = "OPTIMAL" /\ variant = "c"
    /\ tank_usage_penalty > 0
    /\ \E t, u \in TankIx :
          /\ Touched(solver.solution, t) /\ solver.solution.use_tank[t] = 1
          /\ ~Touched(solver.solution, u) /\ SpareOf(u) > 0

\* the number of tanks a packing puts a demand into
TouchedBy(f) == Cardinality({f[d] : d \in 1..Len(demands)})

\* the number of rows of the result with a demand in their list
TouchedRows(result) ==
    Cardinality({t \in 1..Len(result) : result[t].demands # <<>>})

\* C21: with a positive tank_usage_penalty the tank_solve_d optimum touches
\* the fewest tanks among the feasible packings that leave every tank the
\* stranded capacity the optimum leaves it.
C21_FewestTanksAmongTies ==
    (Succeeded /\ variant = "d" /\ tank_usage_penalty > 0 /\ demands # <<>>) =>
        \A f \in Packings :
            PackingStranded(f) = ResultStranded =>
                TouchedRows(ret.result) <= TouchedBy(f)

\* a solved call with a zero-volume demand that another packing, with the
\* same stranded capacities, puts into a tank of its own
C21_Witness ==
    /\ Succeeded /\ variant = "d" /\ tank_usage_penalty > 0
    /\ solver.status = "OPTIMAL"
    /\ \E d \in 1..Len(demands) : demands[d] = 0
    /\ \E f \in Packings :
          /\ PackingStranded(f) = ResultStranded
          /\ TouchedBy(f) > TouchedRows(ret.result)

\* C22: when tank_solve_d raises a validation error no solver instance has
\* been created, and no variable or constraint has been added to one.
C22_ErrorsBeforeSolver ==
    (pc = "raised" /\ variant = "d") =>
        /\ ~solver.created
        /\ solver.model = NoModel

\* C23: in every successful result of tank_solve_c, on the solved and on
\* the empty-list path, a tank's stranded value is its spare capacity minus
\* its placed volume if a demand is placed in it, and 0 if it is untouched.
C23_GatedStranded ==
    (Succeeded /\ variant = "c") =>
        \A t \in TankIx :
            ret.result[t].stranded =
                (IF ret.result[t].demands # <<>>
                 THEN SpareOf(t) - ret.result[t].placed
                 ELSE 0)

\* a solved tank_solve_c call left capacity stranded in the tank it used and
\* reported 0 for an untouched tank with spare capacity
C23_Witness ==
    /\ Succeeded /\ variant = "c"
    /\ solver.status = "OPTIMAL"
    /\ \E t, u \in TankIx :
          /\ ret.result[t].demands # <<>> /\ ret.result[t].stranded > 0
          /\ ret.result[u].demands = <<>> /\ SpareOf(u) > 0
          /\ ret.result[u].stranded = 0

\* C24: if some volume of the list passed to tank_solve_c is negative, the
\* call raises a validation error before the model is built, and returns no
\* placement.
C24_NegativeDemandRejectedC ==
    (Finished /\ variant = "c" /\ \E d \in 1..Len(demands) : demands[d] < 0) =>
        /\ pc = "raised"
        /\ ret = Raised("ValueError")
        /\ solver.model = NoModel

\* the call got as far as handing a model to the solver
ModelSolved == solver.model # NoModel /\ solver.status # "NOT_SOLVED"

C29_WeightErrorUnreachable ==
    variant = "d" =>
        /\ pc = "raised" => solver.model = NoModel
        /\ (pc = "listed" /\ demands # <<>>
                /\ \A t \in TankIx : SpareOf(t) >= 0) =>
              /\ SumSeq(SpareCapacity(tanks_df)) + 1 >= 1
              /\ WeightsOf("d", SpareCapacity(tanks_df)).raised = "none"

\* a call whose tanks are all full built its model: the base was exactly 1
C29_Witness ==
    /\ variant = "d" /\ pc = "built"
    /\ \A t \in TankIx : SpareOf(t) = 0
    /\ solver.model.weights[1].base = 1

\* C26: in the exercise6 model, every assignment that places each demand once
\* and respects tank capacity, two or more demands in one tank included, has
\* a stranded value per tank that the constraints admit, and that value is
\* the tank's final remaining capacity if a demand is placed there and zero
\* otherwise.
C26_StrandedAdmitted ==
    (variant = "6" /\ pc = "built") =>
        LET m == solver.model
        IN \A a \in Assignments6(m) :
              \E s \in FeasibleSolutions6(m) :
                  /\ s.assign = a
                  /\ \A t \in Tanks(m) :
                        s.stranded[t] =
                            (IF tank_is_used(m, a, t) > 0
                             THEN final_remaining(m, a, t) ELSE 0)

\* the tanks an exercise6 solution places a demand in
Touched6(m, sol) ==
    Cardinality({t \in Tanks(m) : tank_is_used(m, sol.assign, t) > 0})

\* C27: in the exercise6 model, of two feasible solutions with the same total
\* stranded capacity the one that touches fewer tanks has the strictly
\* smaller objective.
C27_FewerTanksCheaper ==
    (variant = "6" /\ pc = "built") =>
        LET m == solver.model
        IN \A s1, s2 \in FeasibleSolutions6(m) :
              (/\ total_stranded(m, s1) = total_stranded(m, s2)
               /\ Touched6(m, s1) < Touched6(m, s2))
                  => Objective6(m, s1) < Objective6(m, s2)

\* the runner returned or raised
RunFinished == run.pc \in {"returned", "raised"}

\* tank_solve_d returns success for the scenario
ScenarioSucceeds(scenario) ==
    \A outcome \in tank_solve_d(scenario[1], scenario[2], 1) :
        outcome.kind = "return" /\ outcome.ok

\* C30: for every finite sequence of scenarios, the empty one and those with
\* a failing scenario included, run_iterative_scenarios solves every scenario
\* in order and returns diagnostics with iterations = number of scenarios,
\* ok true exactly when every scenario succeeded, and objective_value = the
\* total stranded capacity of the last successful scenario (None if none).
C30_RunnerDiagnostics ==
    RunFinished =>
        LET n == Len(run.scenarios)
            succeeded == {i \in 1..n : ScenarioSucceeds(run.scenarios[i])}
        IN /\ run.pc = "returned"
           /\ run.done = n
           /\ run.ret.iterations = n
           /\ run.ret.ok <=> (succeeded = 1..n)
           /\ IF succeeded = {}
              THEN run.ret.objective_value = <<>>
              ELSE LET last == CHOOSE i \in succeeded :
                                   \A j \in succeeded : j <= i
                       scenario == run.scenarios[last]
                   IN \E outcome \in tank_solve_d(scenario[1], scenario[2], 1) :
                         run.ret.objective_value =
                             <<stranded_sum(outcome.result)>>

\* C25: two tank_solve_d calls whose steps interleave in any order each
\* return what the call returns when run alone; while a call is between
\* construction and decoding, its solver instance is its own and holds the
\* variables, constraints and weights of that call's arguments only.
C25_SideBySideIndependent ==
    \A i \in 1..2 :
        /\ calls[i].pc \in {"returned", "raised"} =>
              calls[i].ret \in tank_solve_d(calls[i].tanks_df, calls[i].demands,
                                            calls[i].tank_usage_penalty)
        /\ calls[i].pc \in {"built", "solved"} =>
              solvers[calls[i].solver].model =
                  BuiltModel("d", calls[i].tanks_df, calls[i].demands,
                             calls[i].tank_usage_penalty)
        /\ \A j \in 1..2 :
              (i # j /\ calls[i].pc # "idle" /\ calls[j].pc # "idle") =>
                  calls[i].solver # calls[j].solver

\* call 1 created its solver after call 2 and has already returned a
\* placement, while call 2, with other arguments, is between construction
\* and solve
C25_Witness ==
    /\ calls[1].pc = "returned"
    /\ calls[1].ret.ok
    /\ calls[2].pc = "built"
    /\ calls[2].solver < calls[1].solver
    /\ calls[1].demands # <<>>
    /\ <<calls[1].tanks_df, calls[1].demands>>
           # <<calls[2].tanks_df, calls[2].demands>>

====
